---- MODULE Spec2Model ----
(***************************************************************************)
(* A model of the internship recommender: the text normaliser and the      *)
(* ranking engine of backend.py, and the find_matches request handler of   *)
(* app.py, with its account and company routes.  Five specifications share *)
(* the module:                                                             *)
(*   Spec       recommendInternship called repeatedly on one set of        *)
(*              arguments                                                  *)
(*   SpecPre    preprocess applied to a text and then to its own output    *)
(*   SpecTerms  get_top_contributing_terms on a pair of weight rows        *)
(*   SpecWeb    login, logout, add-internship and find-matches requests    *)
(*   SpecAuth   signup, login, logout and the company's add, delete and    *)
(*              update requests on the internships table                   *)
(*                                                                         *)
(* Representation.                                                         *)
(*  - A text is the sequence of tokens word_tokenize yields for it; the    *)
(*    string ' '.join builds is the sequence of the joined words.          *)
(*  - The NLTK resources (stopword list, WordNet lemmatizer) are tables    *)
(*    over the finite word universe RawWords.                              *)
(*  - Scores are exact rationals kept as integer numerators over a         *)
(*    denominator shared by all candidates of one call; the TF-IDF weights *)
(*    and the cosine similarity are fixed-point numbers with three         *)
(*    decimals (the precision the explanation prints).                     *)
(*  - A Python call either returns a value or raises; a raise is the       *)
(*    outcome "TypeError", "ValueError" or "ZeroDivisionError".            *)
(***************************************************************************)
EXTENDS Integers, Sequences, FiniteSets, TLC

VARIABLES
    text,         \* SpecPre: the raw text handed to preprocess
    passes,       \* SpecPre: the outputs of the successive preprocess calls
    student,      \* Spec: the student record of recommendInternship
    internships,  \* Spec: the caller's candidate list
    top_n,        \* Spec: the top_n argument
    callerCopy,   \* Spec: the candidate list as the caller built it
    rng,          \* Spec: the state of the process-wide random generator
    argsortTies,  \* Spec, SpecTerms: how this build's np.argsort orders equal values
    calls,        \* Spec: the outcome of each recommendInternship call so far
    queryWeights, \* SpecTerms: the query's row of term weights
    docWeights,   \* SpecTerms: a candidate's row of term weights
    returnedTerms, \* SpecTerms: what get_top_contributing_terms returned
    termsDone,    \* SpecTerms: whether it has been called
    session,      \* SpecWeb: session['user_id'], 0 when the session holds none
    table,        \* SpecWeb: the rows of the internships table
    last,         \* SpecWeb: the last find_matches request and its answer
    users,        \* SpecAuth: the rows of the users table, users[i] has id i
    rows,         \* SpecAuth: the rows of the internships table
    nextId,       \* SpecAuth: the id AUTOINCREMENT gives the next internship
    lastWrite     \* SpecAuth: the last delete or update request and its answer

rankVars == <<student, internships, top_n, callerCopy, rng, calls>>

termVars == <<queryWeights, docWeights, returnedTerms, termsDone>>

webVars == <<session, table, last>>

authVars == <<users, rows, nextId, lastWrite>>

vars == <<text, passes, rankVars, argsortTies, termVars, webVars, authVars>>

(***************************************************************************)
(* Bounds                                                                  *)
(***************************************************************************)
MaxTextLen == 2
MaxPasses == 2
MaxInterns == 2
MaxTopN == 2
MaxCalls == 2
RngMod == 4

(***************************************************************************)
(* Words: the raw tokens, and the NLTK tables restricted to them           *)
(***************************************************************************)
RawWords ==
    {"Python", "python", "flask", "sql", "skills", "design", "cooking",
     "cans", "ids", "the", "and", "of", "42", ","}

Lower(w) == IF w = "Python" THEN "python" ELSE w

Punctuation == {","}

IsAlnum(w) == w \notin Punctuation

IsDigit(w) == w \in {"42"}

\* the members of stopwords.words('english') among the words of the universe
StopWords == {"the", "and", "of", "can"}

\* WordNetLemmatizer.lemmatize(word), default part of speech (noun)
Lemmatize(w) ==
    CASE w = "skills" -> "skill"
      [] w = "cans" -> "can"
      [] w = "ids" -> "id"
      [] OTHER -> w

KeepToken(word) ==
    /\ IsAlnum(word)
    /\ word \notin StopWords
    /\ ~IsDigit(word)
    /\ Len(word) > 2

preprocess(t) ==
    LET tokens == [i \in 1..Len(t) |-> Lower(t[i])]
        kept == SelectSeq(tokens, KeepToken)
    IN  [i \in 1..Len(kept) |-> Lemmatize(kept[i])]

(***************************************************************************)
(* Python values and records                                               *)
(*   A field of a candidate record is absent, None, a non-numeric string,  *)
(*   or a number.  rating is kept in tenths (42 is 4.2).                   *)
(***************************************************************************)
Num(n) == [kind |-> "num", val |-> n]
Absent == [kind |-> "absent", val |-> 0]
None == [kind |-> "None", val |-> 0]
Str == [kind |-> "str", val |-> 0]

IsNum(v) == v.kind = "num"

\* intern.get(key, 0)
Get(intern, key) == IF intern[key] = Absent THEN Num(0) ELSE intern[key]

\* student.get(key, "")
GetText(rec, key) == IF key \in DOMAIN rec THEN rec[key] ELSE <<>>

Max(S) == CHOOSE x \in S : \A y \in S : y <= x

Min2(a, b) == IF a <= b THEN a ELSE b

(***************************************************************************)
(* TfidfVectorizer(ngram_range=(1, 2), min_df=2) and cosine_similarity     *)
(***************************************************************************)
MinDf == 2

\* the alphabetical order of the normalised words (feature names are sorted)
Alphabet == <<"can", "cooking", "design", "flask", "id", "python", "skill", "sql">>

RankOf == [w \in {Alphabet[i] : i \in 1..Len(Alphabet)} |->
              CHOOSE i \in 1..Len(Alphabet) : Alphabet[i] = w]

Rank(w) == RankOf[w]

\* string order of two terms (a unigram or a bigram joined by a space)
TermLess(a, b) ==
    \/ Rank(a[1]) < Rank(b[1])
    \/ /\ a[1] = b[1]
       /\ \/ Len(a) < Len(b)
          \/ Len(a) = 2 /\ Len(b) = 2 /\ Rank(a[2]) < Rank(b[2])

\* the vectorizer's token pattern keeps tokens of two or more characters
VecTokens(doc) == SelectSeq(doc, LAMBDA w : Len(w) >= 2)

Ngrams(doc) ==
    LET d == VecTokens(doc)
    IN  {<<d[i]>> : i \in 1..Len(d)} \cup {<<d[i], d[i + 1]>> : i \in 1..(Len(d) - 1)}

\* the occurrences of a term among the tokens d of a document
Tf(term, d) ==
    Cardinality({i \in 1..(Len(d) - Len(term) + 1) : SubSeq(d, i, i + Len(term) - 1) = term})

\* the terms left after min_df pruning, given each document's n-grams
\* (max_features=5000 does not bind on a vocabulary of fewer than 5000 terms)
Vocabulary(grams) ==
    {t \in UNION {grams[k] : k \in 1..Len(grams)} :
        Cardinality({k \in 1..Len(grams) : t \in grams[k]}) >= MinDf}

\* vectorizer.get_feature_names_out(): the vocabulary in string order
FeatureNames(V) ==
    LET pos == [t \in V |-> 1 + Cardinality({u \in V : TermLess(u, t)})]
    IN  [i \in 1..Cardinality(V) |-> CHOOSE t \in V : pos[t] = i]

\* 1000 * ln(a / b), for the ratios (1 + n) / (1 + df) of a small corpus
LnMilli(a, b) ==
    CASE a = b -> 0
      [] <<a, b>> = <<4, 3>> -> 287
      [] <<a, b>> = <<5, 3>> -> 510
      [] <<a, b>> = <<5, 4>> -> 223
      [] <<a, b>> = <<6, 3>> -> 693
      [] <<a, b>> = <<6, 4>> -> 405
      [] <<a, b>> = <<6, 5>> -> 182

\* smooth idf: ln((1 + n) / (1 + df)) + 1, three decimals
IdfMilli(n, df) == LnMilli(1 + n, 1 + df) + 1000

RECURSIVE SqrtBetween(_, _, _)
SqrtBetween(x, lo, hi) ==
    IF lo >= hi THEN lo
    ELSE LET mid == (lo + hi + 1) \div 2
         IN  IF mid * mid <= x THEN SqrtBetween(x, mid, hi) ELSE SqrtBetween(x, lo, mid - 1)

\* the square root of x rounded up
SqrtUp(x) ==
    LET r == SqrtBetween(x, 0, Min2(x, 46340))
    IN  IF r * r = x THEN r ELSE r + 1

RECURSIVE SumSeq(_)
SumSeq(s) == IF s = <<>> THEN 0 ELSE s[1] + SumSeq(Tail(s))

\* the idf of each feature over a corpus of n documents
IdfRow(names, grams) ==
    [i \in 1..Len(names) |->
        IdfMilli(Len(grams), Cardinality({k \in 1..Len(grams) : names[i] \in grams[k]}))]

\* one row of the tf-idf matrix: tf * idf, scaled to unit length (norm='l2')
TfidfRow(tokens, names, idf) ==
    LET raw == [i \in 1..Len(names) |-> Tf(names[i], tokens) * idf[i]]
        norm == SqrtUp(SumSeq([i \in 1..Len(raw) |-> raw[i] * raw[i]]))
    IN  [i \in 1..Len(raw) |-> IF norm = 0 THEN 0 ELSE (raw[i] * 1000) \div norm]

\* cosine_similarity of two rows already of unit length, three decimals
Cosine(q, d) == SumSeq([i \in 1..Len(q) |-> q[i] * d[i]]) \div 1000

(***************************************************************************)
(* get_top_contributing_terms                                              *)
(*   np.argsort sorts ascending with the default kind, which is not stable:*)
(*   the order it gives equal values is fixed by the build (ties), either  *)
(*   by ascending index ("stable") or by descending index ("reversed").    *)
(***************************************************************************)
TopTermsDefault == 3

Argsort(c, ties) ==
    LET before(j, i) ==
            \/ c[j] < c[i]
            \/ c[j] = c[i] /\ (IF ties = "stable" THEN j < i ELSE j > i)
        pos == [i \in 1..Len(c) |-> 1 + Cardinality({j \in 1..Len(c) : before(j, i)})]
    IN  [k \in 1..Len(c) |-> CHOOSE i \in 1..Len(c) : pos[i] = k]

Reverse(s) == [k \in 1..Len(s) |-> s[Len(s) + 1 - k]]

\* s[:n] for n >= 0
Prefix(s, n) == SubSeq(s, 1, Min2(n, Len(s)))

\* TopIndices with the [::-1] left out: the ascending argsort order is kept
TopIndices_NoReverse(query_vec, doc_vec, n, ties) ==
    LET contributions == [i \in 1..Len(query_vec) |-> query_vec[i] * doc_vec[i]]
        top_indices == Argsort(contributions, ties)
    IN  Prefix(SelectSeq(top_indices, LAMBDA i : contributions[i] > 0), n)

\* the indices of the terms get_top_contributing_terms returns, in order
TopIndices(query_vec, doc_vec, n, ties) ==
    LET contributions == [i \in 1..Len(query_vec) |-> query_vec[i] * doc_vec[i]]
        top_indices == Reverse(Argsort(contributions, ties))
    IN  Prefix(SelectSeq(top_indices, LAMBDA i : contributions[i] > 0), n)

get_top_contributing_terms(query_vec, doc_vec, feature_names, n, ties) ==
    LET top_indices == TopIndices(query_vec, doc_vec, n, ties)
    IN  [k \in 1..Len(top_indices) |-> feature_names[top_indices[k]]]

(***************************************************************************)
(* recommendInternship                                                     *)
(***************************************************************************)
Raised(exc, path, fit, r) ==
    [outcome |-> exc, value |-> <<>>, path |-> path, fit |-> fit, rng |-> r]

Returned(value, path, fit, r) ==
    [outcome |-> "returned", value |-> value, path |-> path, fit |-> fit, rng |-> r]

\* Python's order on tuples of numbers of one length: a < b
KeyLess(a, b) ==
    \E k \in 1..Len(a) : a[k] < b[k] /\ \A j \in 1..(k - 1) : a[j] = b[j]

\* sorted(..., key=..., reverse=True) and list.sort(key=..., reverse=True):
\* descending by key, equal keys in their original order.  key[i] is the key
\* of s[i].
SortDescending(s, key) ==
    LET pos == [i \in 1..Len(s) |-> 1 + Cardinality({j \in 1..Len(s) :
                        KeyLess(key[i], key[j]) \/ (key[i] = key[j] /\ j < i)})]
    IN  [k \in 1..Len(s) |-> s[CHOOSE i \in 1..Len(s) : pos[i] = k]]

\* f'{i["title"]} {i["description"]} {i["required_skills"]}'
DocText(intern) == intern.title \o intern.description \o intern.required_skills

FallbackExplanation ==
    [line |-> "Recommended based on general popularity and ratings.",
     terms |-> <<>>, sim |-> 0, popularity |-> Num(0), prestige |-> Num(0)]

\* popularity/100 * 0.5 + rating/5 * 0.3 + prestige/10 * 0.2, over 100000
FallbackScore(intern) ==
    [num |-> 500 * Get(intern, "popularity").val
             + 600 * Get(intern, "rating").val
             + 2000 * Get(intern, "company_prestige").val,
     den |-> 100000]

FallbackPath(list, n, r) ==
    IF \E i \in 1..Len(list) :
           \E key \in {"popularity", "rating", "company_prestige"} : ~IsNum(Get(list[i], key))
    THEN Raised("TypeError", "fallback", FALSE, r)
    ELSE LET scores == [i \in 1..Len(list) |->
                           [score |-> FallbackScore(list[i]), intern |-> list[i],
                            explanation |-> FallbackExplanation]]
             sorted == SortDescending(scores,
                           [i \in 1..Len(scores) |-> <<scores[i].score.num>>])
         IN  Returned(Prefix(sorted, n), "fallback", FALSE, r)

\* MaxStipend with the "if max_stipend == 0" replacement left out
MaxStipend_NoZeroGuard(list) ==
    Max({Get(list[i], "stipend").val : i \in 1..Len(list)})

\* max(all_stipends), replaced by 1 when it is 0
MaxStipend(list) ==
    LET max_stipend == Max({Get(list[i], "stipend").val : i \in 1..Len(list)})
    IN  IF max_stipend = 0 THEN 1 ELSE max_stipend

\* sim*0.55 + popularity/100*0.15 + min(stipend/max_stipend, 1)*0.15
\*   + rating/5*0.10 + prestige/10*0.05, over 100000 * max_stipend
BlendedScore(intern, sim, max_stipend) ==
    LET stipend == Get(intern, "stipend").val
    IN  [num |-> max_stipend * (55 * sim
                                + 150 * Get(intern, "popularity").val
                                + 200 * Get(intern, "rating").val
                                + 500 * Get(intern, "company_prestige").val)
                 + 15000 * (IF stipend <= max_stipend THEN stipend ELSE max_stipend),
         den |-> 100000 * max_stipend]

Explanation(intern, sim, top_terms) ==
    [line |-> IF sim > 50 /\ top_terms # <<>> THEN "Keyword Match"
              ELSE IF sim > 50 THEN "General textual match with your resume."
              ELSE "No strong skill match, ranked by popularity and ratings.",
     terms |-> IF sim > 50 THEN top_terms ELSE <<>>,
     sim |-> sim,
     popularity |-> Get(intern, "popularity"),
     prestige |-> Get(intern, "company_prestige")]

\* the process-wide generator behind random.random(): one step of it
NextRng(s) == (s + 3) % RngMod

RECURSIVE Draws(_, _)
\* the values of n successive random.random() calls from state s
Draws(s, n) == IF n = 0 THEN <<>> ELSE <<NextRng(s)>> \o Draws(NextRng(s), n - 1)

VectorPath(query, docs, list, n, r, ties) ==
    LET corpus == docs \o <<query>>
        grams == [k \in 1..Len(corpus) |-> Ngrams(corpus[k])]
        V == Vocabulary(grams)
    IN
    IF V = {} THEN Raised("ValueError", "vector", TRUE, r)
    ELSE IF \E i \in 1..Len(list) :
                \E key \in {"popularity", "rating", "company_prestige", "stipend"} :
                    ~IsNum(Get(list[i], key))
    THEN Raised("TypeError", "vector", TRUE, r)
    ELSE
    LET feature_names == FeatureNames(V)
        idf == IdfRow(feature_names, grams)
        query_vec == TfidfRow(VecTokens(query), feature_names, idf)
        doc_vecs == [i \in 1..Len(docs) |-> TfidfRow(VecTokens(docs[i]), feature_names, idf)]
        max_stipend == MaxStipend(list)
        draws == Draws(r, Len(list))
        scores == [i \in 1..Len(list) |->
                      LET sim == Cosine(query_vec, doc_vecs[i])
                      IN  [score |-> BlendedScore(list[i], sim, max_stipend),
                           intern |-> list[i],
                           explanation |-> Explanation(list[i], sim,
                               get_top_contributing_terms(query_vec, doc_vecs[i],
                                   feature_names, TopTermsDefault, ties)),
                           draw |-> draws[i]]]
        sorted == SortDescending(scores,
                      [i \in 1..Len(scores) |-> <<scores[i].score.num, scores[i].draw>>])
        triples == [k \in 1..Len(sorted) |->
                       [score |-> sorted[k].score, intern |-> sorted[k].intern,
                        explanation |-> sorted[k].explanation]]
    IN  IF max_stipend = 0 THEN Raised("ZeroDivisionError", "vector", TRUE, r)
        ELSE Returned(Prefix(triples, n), "vector", TRUE,
                      IF Len(list) = 0 THEN r ELSE draws[Len(list)])

recommendInternship(stud, list, n, r, ties) ==
    IF list = <<>> THEN Returned(<<>>, "empty", FALSE, r)
    ELSE LET query == preprocess(GetText(stud, "skills") \o GetText(stud, "interests"))
             docs == [i \in 1..Len(list) |-> preprocess(DocText(list[i]))]
         IN  IF query = <<>> THEN FallbackPath(list, n, r)
             ELSE VectorPath(query, docs, list, n, r, ties)

(***************************************************************************)
(* app.py: the session, the student_required guard and find_matches        *)
(***************************************************************************)
\* the users init_db seeds: id 1 a company, id 2 a student
UserRole == [u \in {1, 2} |-> IF u = 1 THEN "company" ELSE "student"]

\* load_logged_in_user: g.user, 0 for None
LoadUser(user_id) == IF user_id \in DOMAIN UserRole THEN user_id ELSE 0

NoRequest ==
    [request |-> [hasFile |-> FALSE, pdfName |-> FALSE, readable |-> FALSE, text |-> "blank"],
     user |-> 0, candidates |-> 0, status |-> 0, core |-> FALSE]

Answer(req, user, n, status, core) ==
    [request |-> req, user |-> user, candidates |-> n, status |-> status, core |-> core]

\* find_matches with the "if not resume_text.strip()" check left out
find_matches_NoBlankCheck(req, user, n, coreStatus) ==
    IF user = 0 THEN Answer(req, user, n, 302, FALSE)
    ELSE IF UserRole[user] # "student" THEN Answer(req, user, n, 403, FALSE)
    ELSE IF ~req.hasFile THEN Answer(req, user, n, 400, FALSE)
    ELSE IF ~req.pdfName THEN Answer(req, user, n, 400, FALSE)
    ELSE IF ~req.readable THEN Answer(req, user, n, 500, FALSE)
    ELSE IF n = 0 THEN Answer(req, user, n, 404, FALSE)
    ELSE Answer(req, user, n, coreStatus, TRUE)

\* find_matches behind student_required; coreStatus is the status of the
\* answer once recommendInternship has been called (200, or 500 when it raised)
find_matches(req, user, n, coreStatus) ==
    IF user = 0 THEN Answer(req, user, n, 302, FALSE)
    ELSE IF UserRole[user] # "student" THEN Answer(req, user, n, 403, FALSE)
    ELSE IF ~req.hasFile THEN Answer(req, user, n, 400, FALSE)
    ELSE IF ~req.pdfName THEN Answer(req, user, n, 400, FALSE)
    ELSE IF ~req.readable THEN Answer(req, user, n, 500, FALSE)
    ELSE IF req.text = "blank" THEN Answer(req, user, n, 400, FALSE)
    ELSE IF n = 0 THEN Answer(req, user, n, 404, FALSE)
    ELSE Answer(req, user, n, coreStatus, TRUE)

(***************************************************************************)
(* SpecPre: preprocess applied to a text, then to its own output           *)
(***************************************************************************)
RECURSIVE SeqsUpTo(_, _)
SeqsUpTo(S, n) ==
    IF n = 0 THEN {<<>>}
    ELSE LET shorter == SeqsUpTo(S, n - 1)
         IN  shorter \cup {Append(s, x) : s \in {q \in shorter : Len(q) = n - 1}, x \in S}

IdleRank ==
    /\ student = [skills |-> <<>>]
    /\ internships = <<>>
    /\ top_n = 1
    /\ callerCopy = <<>>
    /\ rng = 0
    /\ calls = <<>>

IdleTerms ==
    /\ queryWeights = <<>>
    /\ docWeights = <<>>
    /\ returnedTerms = <<>>
    /\ termsDone = FALSE

IdleWeb ==
    /\ session = 0
    /\ table = <<>>
    /\ last = NoRequest

\* init_db: the two seeded users, no internship row
SeedUsers ==
    <<[email |-> "mca@gov.in", role |-> "company"],
      [email |-> "aditya@student.com", role |-> "student"]>>

NoWrite ==
    [op |-> "none", id |-> 0, user |-> 0, status |-> 0, before |-> {}]

IdleAuth ==
    /\ users = SeedUsers
    /\ rows = {}
    /\ nextId = 1
    /\ lastWrite = NoWrite

InitPre ==
    /\ text \in SeqsUpTo(RawWords, MaxTextLen)
    /\ passes = <<>>
    /\ argsortTies = "stable"
    /\ IdleRank
    /\ IdleTerms
    /\ IdleWeb
    /\ IdleAuth

PreprocessPass ==
    /\ Len(passes) < MaxPasses
    /\ passes' = Append(passes, preprocess(IF passes = <<>> THEN text ELSE passes[Len(passes)]))
    /\ UNCHANGED <<text, rankVars, argsortTies, termVars, webVars, authVars>>

NextPre == PreprocessPass

SpecPre == InitPre /\ [][NextPre]_vars

\* C8: preprocess is idempotent: preprocess(preprocess(x)) = preprocess(x).
C8_PreprocessIdempotent ==
    Len(passes) >= 2 => passes[2] = passes[1]


(***************************************************************************)
(* Spec: recommendInternship called, and called again, on the same         *)
(* arguments                                                               *)
(***************************************************************************)
Texts ==
    <<[title |-> <<"Python">>, description |-> <<"flask", "skills">>,
       required_skills |-> <<"python", ",", "flask">>],
      [title |-> <<"design">>, description |-> <<>>, required_skills |-> <<"sql">>],
      [title |-> <<"design">>, description |-> <<"the", "skills">>,
       required_skills |-> <<"python">>]>>

Signals(popularity, rating, prestige, stipend) ==
    [popularity |-> popularity, rating |-> rating, company_prestige |-> prestige,
     stipend |-> stipend]

Record(t, n) ==
    [title |-> t.title, description |-> t.description, required_skills |-> t.required_skills,
     popularity |-> n.popularity, rating |-> n.rating,
     company_prestige |-> n.company_prestige, stipend |-> n.stipend]

\* well-formed records, records with absent keys, and records whose numeric
\* fields hold None or a string
Records ==
    {Record(Texts[1], Signals(Num(80), Num(42), Num(7), Num(10000))),
     Record(Texts[2], Signals(Num(90), Num(48), Num(8), Num(15000))),
     Record(Texts[2], Signals(Num(80), Num(42), Num(7), Num(10000))),
     Record(Texts[3], Signals(Num(80), Num(42), Num(7), Num(10000))),
     Record(Texts[1], Signals(Num(80), Num(42), Num(7), Num(0))),
     Record(Texts[3], Signals(Absent, Num(42), Absent, Absent)),
     Record(Texts[1], Signals(None, Num(42), Num(7), Num(10000))),
     Record(Texts[2], Signals(Num(80), Num(42), Num(7), Str)),
     Record(Texts[3], Signals(Num(80), Str, None, Num(10000)))}

Students ==
    {[skills |-> <<>>],
     [skills |-> <<"the", "and", "of">>],
     [skills |-> <<"Python", "flask">>],
     [skills |-> <<"cooking">>],
     [skills |-> <<"the">>, interests |-> <<"sql">>]}

RngSeeds == {0, 1}

Init ==
    /\ text = <<>>
    /\ passes = <<>>
    /\ student \in Students
    /\ internships \in SeqsUpTo(Records, MaxInterns)
    /\ top_n \in 1..MaxTopN
    /\ callerCopy = internships
    /\ rng \in RngSeeds
    /\ argsortTies \in {"stable", "reversed"}
    /\ calls = <<>>
    /\ IdleTerms
    /\ IdleWeb
    /\ IdleAuth

\* Recommend with the ranking written back into the caller's list, as an
\* in-place internships.sort(...) would
Recommend_SortsInPlace ==
    /\ Len(calls) < MaxCalls
    /\ \E ret \in {recommendInternship(student, internships, top_n, rng, argsortTies)} :
           /\ calls' = Append(calls, [outcome |-> ret.outcome, value |-> ret.value,
                                      path |-> ret.path, fit |-> ret.fit])
           /\ rng' = ret.rng
           /\ internships' = IF ret.outcome = "returned" /\ Len(ret.value) = Len(internships)
                             THEN [k \in 1..Len(ret.value) |-> ret.value[k].intern]
                             ELSE internships
    /\ UNCHANGED <<text, passes, student, top_n, callerCopy, argsortTies, termVars, webVars, authVars>>

Recommend ==
    /\ Len(calls) < MaxCalls
    /\ \E ret \in {recommendInternship(student, internships, top_n, rng, argsortTies)} :
           /\ calls' = Append(calls, [outcome |-> ret.outcome, value |-> ret.value,
                                      path |-> ret.path, fit |-> ret.fit])
           /\ rng' = ret.rng
    /\ UNCHANGED <<text, passes, student, internships, top_n, callerCopy, argsortTies, termVars, webVars, authVars>>

Next == Recommend

Spec == Init /\ [][Next]_vars


(***************************************************************************)
(* State functions the properties of Spec are stated with                  *)
(***************************************************************************)
NormalizedQuery == preprocess(GetText(student, "skills") \o GetText(student, "interests"))

CorpusGrams ==
    [k \in 1..(Len(internships) + 1) |->
        IF k <= Len(internships) THEN Ngrams(preprocess(DocText(internships[k])))
        ELSE Ngrams(NormalizedQuery)]

VocabularyEmpty == Vocabulary(CorpusGrams) = {}

Signal(intern, key) == IF IsNum(intern[key]) THEN intern[key].val ELSE 0

SignalKeys == {"popularity", "rating", "company_prestige", "stipend"}

\* a field that is present and is not a number
Malformed(intern, key) == intern[key] \in {None, Str}

AllStipendsZero == \A i \in 1..Len(internships) : Signal(internships[i], "stipend") = 0

Descending(value) ==
    \A a \in 1..(Len(value) - 1) :
        /\ value[a].score.den = value[a + 1].score.den
        /\ value[a].score.num >= value[a + 1].score.num

\* C1: every call returns exactly min(top_n, len(internships)) triples, on
\* either path, and the empty list for an empty candidate list.
C1_ReturnsMinTopN ==
    \A k \in 1..Len(calls) :
        /\ calls[k].outcome = "returned"
        /\ Len(calls[k].value) = Min2(top_n, Len(internships))

\* C2: with a non-empty candidate list and an empty normalized query the call
\* returns the candidates in descending order of
\* 0.5*(popularity/100) + 0.3*(rating/5) + 0.2*(prestige/10), each with the
\* fixed fallback explanation, and the vectorizer is never fitted.
C2_FallbackSorted ==
    \A k \in 1..Len(calls) :
        (internships # <<>> /\ NormalizedQuery = <<>>) =>
            /\ calls[k].outcome = "returned"
            /\ calls[k].path = "fallback"
            /\ ~calls[k].fit
            /\ Descending(calls[k].value)
            /\ \A a \in 1..Len(calls[k].value) :
                  LET t == calls[k].value[a]
                  IN  /\ t.explanation = FallbackExplanation
                      /\ t.score.den = 100000
                      /\ t.score.num = 500 * Signal(t.intern, "popularity")
                                       + 600 * Signal(t.intern, "rating")
                                       + 2000 * Signal(t.intern, "company_prestige")

\* C3: on the vector-space path the returned list is in non-increasing order
\* of score, the score of a candidate is
\* 0.55*sim + 0.15*(popularity/100) + 0.15*min(stipend/maxStipend, 1)
\*   + 0.10*(rating/5) + 0.05*(prestige/10)
\* with maxStipend the largest stipend of the call, or 1 when that is 0; no
\* division by zero occurs, and with every stipend 0 the stipend term is 0.
C3_VectorRanking ==
    \A k \in 1..Len(calls) :
        calls[k].path = "vector" =>
            /\ calls[k].outcome # "ZeroDivisionError"
            /\ calls[k].outcome = "returned" =>
                  LET largest == Max({Signal(internships[i], "stipend") : i \in 1..Len(internships)})
                      maxStipend == IF largest = 0 THEN 1 ELSE largest
                  IN  /\ Descending(calls[k].value)
                      /\ \A a \in 1..Len(calls[k].value) :
                            LET t == calls[k].value[a]
                                rest == 55 * t.explanation.sim
                                        + 150 * Signal(t.intern, "popularity")
                                        + 200 * Signal(t.intern, "rating")
                                        + 500 * Signal(t.intern, "company_prestige")
                            IN  /\ t.score.den = 100000 * maxStipend
                                /\ t.score.num = maxStipend * rest
                                       + 15000 * Min2(Signal(t.intern, "stipend"), maxStipend)
                                /\ AllStipendsZero => t.score = [num |-> rest, den |-> 100000]

\* a vector-space call that returned two or more candidates, every one with
\* stipend 0
C3_Witness ==
    \E k \in 1..Len(calls) :
        /\ calls[k].path = "vector"
        /\ calls[k].outcome = "returned"
        /\ Len(calls[k].value) >= 2
        /\ AllStipendsZero
        /\ calls[k].value[1].score.num > calls[k].value[2].score.num

\* C4: a record whose popularity, rating, prestige or stipend is missing or
\* not a number is ranked with zero in that field; no exception escapes.
C4_MalformedAsZero ==
    \A k \in 1..Len(calls) :
        (\E i \in 1..Len(internships) : \E key \in SignalKeys :
             Malformed(internships[i], key) \/ internships[i][key] = Absent) =>
            /\ calls[k].outcome = "returned"
            /\ calls[k].path = "fallback" =>
                  \A a \in 1..Len(calls[k].value) :
                      LET t == calls[k].value[a]
                      IN  t.score.num = 500 * Signal(t.intern, "popularity")
                                        + 600 * Signal(t.intern, "rating")
                                        + 2000 * Signal(t.intern, "company_prestige")

\* C5: with a non-empty query and a vocabulary that is empty after min_df
\* pruning, the call does not raise: every candidate gets sim = 0 and the
\* blended score is applied.
C5_EmptyVocabularyZeroSim ==
    \A k \in 1..Len(calls) :
        (internships # <<>> /\ NormalizedQuery # <<>> /\ VocabularyEmpty) =>
            /\ calls[k].outcome = "returned"
            /\ \A a \in 1..Len(calls[k].value) : calls[k].value[a].explanation.sim = 0

\* C6: two calls with the same query, candidate list and top_n give the
\* same ordered output.
C6_SameInputsSameOutput ==
    \A j, k \in 1..Len(calls) : calls[j].value = calls[k].value

\* C7: a call never mutates the caller's candidate list.
C7_ListNotMutated == internships = callerCopy

\* calls on the vector-space path that returned the candidates in another
\* order than the caller's list has them
C7_Witness ==
    \E k \in 1..Len(calls) :
        /\ calls[k].path = "vector"
        /\ calls[k].outcome = "returned"
        /\ Len(calls[k].value) = Len(internships)
        /\ calls[k].value[1].intern # internships[1]


(***************************************************************************)
(* SpecTerms: get_top_contributing_terms on a pair of weight rows          *)
(***************************************************************************)
VecLen == 4

Weights == {0, 1, 2}

\* the feature names of the rows, in vocabulary order
TermNames == [i \in 1..VecLen |-> <<Alphabet[i]>>]

InitTerms ==
    /\ text = <<>>
    /\ passes = <<>>
    /\ IdleRank
    /\ IdleWeb
    /\ IdleAuth
    /\ argsortTies \in {"stable", "reversed"}
    /\ queryWeights \in [1..VecLen -> Weights]
    /\ docWeights \in [1..VecLen -> Weights]
    /\ returnedTerms = <<>>
    /\ termsDone = FALSE

TopTerms ==
    /\ ~termsDone
    /\ returnedTerms' = get_top_contributing_terms(queryWeights, docWeights, TermNames,
                                               TopTermsDefault, argsortTies)
    /\ termsDone' = TRUE
    /\ UNCHANGED <<text, passes, rankVars, argsortTies, queryWeights, docWeights, webVars, authVars>>

NextTerms == TopTerms

SpecTerms == InitTerms /\ [][NextTerms]_vars

Product(i) == queryWeights[i] * docWeights[i]

IndexOf(name) == CHOOSE i \in 1..VecLen : TermNames[i] = name

\* the vocabulary indices of the returned terms, in the order returned
Returned3 == [k \in 1..Len(returnedTerms) |-> IndexOf(returnedTerms[k])]

TopTermsSound ==
    /\ Len(returnedTerms) <= 3
    /\ \A k \in 1..Len(returnedTerms) : Product(Returned3[k]) > 0
    /\ \A j, k \in 1..Len(returnedTerms) : j < k => Returned3[j] # Returned3[k]
    /\ \A k \in 1..(Len(returnedTerms) - 1) : Product(Returned3[k]) >= Product(Returned3[k + 1])
    /\ \A i \in 1..VecLen :
          (\A k \in 1..Len(returnedTerms) : Returned3[k] # i) =>
              \A k \in 1..Len(returnedTerms) : Product(i) <= Product(Returned3[k])

\* C10 as amended: at most 3 terms are returned, each with a strictly
\* positive product of query weight and candidate weight, in non-increasing
\* order of that product, and no term left out has a larger product than a
\* term returned; terms of equal product come in the order np.argsort leaves
\* them in, which need not be vocabulary order.
C10_TopTermsByProduct == termsDone => TopTermsSound

\* four positive products, two of the returned ones equal
C10_Witness ==
    /\ termsDone
    /\ Len(returnedTerms) = 3
    /\ \A i \in 1..VecLen : Product(i) > 0
    /\ Product(Returned3[1]) > Product(Returned3[2])
    /\ Product(Returned3[2]) = Product(Returned3[3])

\* C10 as stated: as above, with terms of equal product in vocabulary order.
C10_TiesInVocabularyOrder ==
    termsDone =>
        /\ TopTermsSound
        /\ \A k \in 1..(Len(returnedTerms) - 1) :
              Product(Returned3[k]) = Product(Returned3[k + 1]) => Returned3[k] < Returned3[k + 1]

(***************************************************************************)
(* SpecWeb: requests to the web application                                *)
(***************************************************************************)
MaxRows == 2

Requests ==
    [hasFile : BOOLEAN, pdfName : BOOLEAN, readable : BOOLEAN,
     text : {"blank", "stopwords", "skills"}]

InitWeb ==
    /\ text = <<>>
    /\ passes = <<>>
    /\ argsortTies = "stable"
    /\ IdleRank
    /\ IdleTerms
    /\ session = 0
    /\ table = <<>>
    /\ last = NoRequest
    /\ IdleAuth

\* POST /login with the credentials of user u: the session is cleared and
\* session['user_id'] set; any other credentials answer 401 and change nothing
Login ==
    /\ \E u \in DOMAIN UserRole : session' = u
    /\ UNCHANGED <<text, passes, rankVars, argsortTies, termVars, table, last, authVars>>

\* GET /logout: session.clear()
Logout ==
    /\ session' = 0
    /\ UNCHANGED <<text, passes, rankVars, argsortTies, termVars, table, last, authVars>>

\* POST /add-internship behind company_required: a row owned by g.user
AddInternship ==
    /\ Len(table) < MaxRows
    /\ LoadUser(session) # 0
    /\ UserRole[LoadUser(session)] = "company"
    /\ table' = Append(table, [id |-> Len(table) + 1, company_id |-> LoadUser(session)])
    /\ UNCHANGED <<text, passes, rankVars, argsortTies, termVars, session, last, authVars>>

\* POST /find-matches
FindMatches ==
    /\ \E req \in Requests, coreStatus \in {200, 500} :
          last' = find_matches(req, LoadUser(session), Len(table), coreStatus)
    /\ UNCHANGED <<text, passes, rankVars, argsortTies, termVars, session, table, authVars>>

NextWeb == Login \/ Logout \/ AddInternship \/ FindMatches

SpecWeb == InitWeb /\ [][NextWeb]_vars

\* no file, an unsupported format, an unreadable file, or no text extracted
ExtractionFailure(req) ==
    ~req.hasFile \/ ~req.pdfName \/ ~req.readable \/ req.text = "blank"

\* C9: find_matches answers every extraction failure with a rejection and
\* does not call recommendInternship; it calls recommendInternship only for
\* a student session, after every extraction check has passed, and with a
\* non-empty candidate list.
C9_RejectBeforeCore ==
    last.status # 0 =>
        /\ ExtractionFailure(last.request) =>
              ~last.core /\ last.status \in {302, 403, 400, 500}
        /\ last.core =>
              /\ ~ExtractionFailure(last.request)
              /\ last.user # 0
              /\ UserRole[last.user] = "student"
              /\ last.candidates >= 1

\* a student's request with a readable PDF reached recommendInternship, and
\* so did not end in a rejection of the upload
C9_Witness ==
    /\ last.core
    /\ last.status = 200
    /\ last.candidates = MaxRows
    /\ last.request.text = "stopwords"

(***************************************************************************)
(* SpecAuth: accounts and the company's writes to the internships table    *)
(***************************************************************************)
MaxIds == 2

Emails == {"mca@gov.in", "aditya@student.com", "hr@acme.com"}

Roles == {"student", "company", "admin"}

Titles == {"Analyst", "Engineer"}

\* load_logged_in_user: g.user as the id of the users row, 0 for None
load_logged_in_user(user_id, us) ==
    IF user_id # 0 /\ user_id \in 1..Len(us) THEN user_id ELSE 0

\* login_required and company_required: the status of the rejection, 0 when
\* the request goes on to the handler
company_required(user, us) ==
    IF user = 0 THEN 302
    ELSE IF us[user].role # "company" THEN 403
    ELSE 0

\* OwnedRow with the "AND company_id = ?" condition left out
OwnedRow_AnyCompany(id, user, t) ==
    {r \in t : r.id = id}

\* SELECT id FROM internships WHERE id = ? AND company_id = ?
OwnedRow(id, user, t) ==
    {r \in t : r.id = id /\ r.company_id = user}

\* DELETE /api/internship/delete/<id>
delete_internship(id, user, us, t) ==
    LET rejection == company_required(user, us)
    IN  IF rejection # 0 THEN [status |-> rejection, rows |-> t]
        ELSE IF OwnedRow(id, user, t) = {} THEN [status |-> 404, rows |-> t]
        ELSE [status |-> 200, rows |-> {r \in t : r.id # id}]

\* PUT /api/internship/update/<id>; data.complete is whether the JSON body
\* has every key the UPDATE reads (a missing key raises KeyError, answered
\* 500, before the statement runs)
update_internship(id, data, user, us, t) ==
    LET rejection == company_required(user, us)
    IN  IF rejection # 0 THEN [status |-> rejection, rows |-> t]
        ELSE IF OwnedRow(id, user, t) = {} THEN [status |-> 404, rows |-> t]
        ELSE IF ~data.complete THEN [status |-> 500, rows |-> t]
        ELSE [status |-> 200,
              rows |-> {IF r.id = id THEN [r EXCEPT !.title = data.title] ELSE r : r \in t}]

InitAuth ==
    /\ text = <<>>
    /\ passes = <<>>
    /\ argsortTies = "stable"
    /\ IdleRank
    /\ IdleTerms
    /\ IdleWeb
    /\ IdleAuth

\* POST /signup: the INSERT fails on a known email (UNIQUE) and on a role
\* outside the CHECK, answered 409; otherwise the user gets the next id
SignupRequest ==
    /\ \E email \in Emails, role \in Roles :
          users' = IF \/ \E i \in 1..Len(users) : users[i].email = email
                      \/ role \notin {"student", "company"}
                   THEN users
                   ELSE Append(users, [email |-> email, role |-> role])
    /\ UNCHANGED <<text, passes, rankVars, argsortTies, termVars, webVars,
                   rows, nextId, lastWrite>>

\* POST /login: with the email of a user and the right password the session
\* is cleared and holds the user's id; otherwise 401 and the session stays
LoginRequest ==
    /\ \E email \in Emails, passwordOk \in BOOLEAN :
          session' = IF passwordOk /\ \E i \in 1..Len(users) : users[i].email = email
                     THEN CHOOSE i \in 1..Len(users) : users[i].email = email
                     ELSE session
    /\ UNCHANGED <<text, passes, rankVars, argsortTies, termVars, table, last, authVars>>

\* POST /add-internship behind company_required: a new row owned by g.user;
\* a rejected request inserts nothing
AddRequest ==
    /\ nextId <= MaxIds
    /\ \E title \in Titles :
          LET user == load_logged_in_user(session, users)
          IN  IF company_required(user, users) # 0
              THEN UNCHANGED <<rows, nextId>>
              ELSE /\ rows' = rows \cup {[id |-> nextId, company_id |-> user, title |-> title]}
                   /\ nextId' = nextId + 1
    /\ UNCHANGED <<text, passes, rankVars, argsortTies, termVars, webVars, users, lastWrite>>

DeleteRequest ==
    /\ \E id \in 1..MaxIds :
          LET user == load_logged_in_user(session, users)
          IN  \E ret \in {delete_internship(id, user, users, rows)} :
                 /\ rows' = ret.rows
                 /\ lastWrite' = [op |-> "delete", id |-> id, user |-> user,
                                  status |-> ret.status, before |-> rows]
    /\ UNCHANGED <<text, passes, rankVars, argsortTies, termVars, webVars, users, nextId>>

UpdateRequest ==
    /\ \E id \in 1..MaxIds, data \in [title : Titles, complete : BOOLEAN] :
          LET user == load_logged_in_user(session, users)
          IN  \E ret \in {update_internship(id, data, user, users, rows)} :
                 /\ rows' = ret.rows
                 /\ lastWrite' = [op |-> "update", id |-> id, user |-> user,
                                  status |-> ret.status, before |-> rows]
    /\ UNCHANGED <<text, passes, rankVars, argsortTies, termVars, webVars, users, nextId>>

NextAuth ==
    \/ SignupRequest
    \/ LoginRequest
    \/ Logout
    \/ AddRequest
    \/ DeleteRequest
    \/ UpdateRequest

SpecAuth == InitAuth /\ [][NextAuth]_vars

\* the session user has the company role and owns row r
OwnedBySessionUser(r) ==
    LET user == load_logged_in_user(session, users)
    IN  /\ user # 0
        /\ users[user].role = "company"
        /\ r.company_id = user

\* a row leaves the table or changes only in a step taken under its owner's session
OwnerStep ==
    \A r \in rows : r \notin rows' => OwnedBySessionUser(r)

\* a delete or update request on a row the session user does not own is
\* answered with a rejection and the table stays as it was
RejectStep ==
    (lastWrite' # lastWrite /\ ~\E r \in rows : r.id = lastWrite'.id /\ OwnedBySessionUser(r))
        => /\ lastWrite'.status \in {302, 403, 404}
           /\ rows' = rows

\* C11: in every step of the signup, login, logout, add, update and delete
\* requests, an internship row is deleted or updated only under a session
\* whose user has the company role and whose id is the row's company_id; a
\* delete or update request from any other session (not logged in, a
\* student, a different company) is rejected and leaves the table unchanged.
C11_OnlyOwnerWrites == [][OwnerStep /\ RejectStep]_vars

\* a company that signed up later asked to delete or update the row of
\* another company, was answered 404, and the row is still in the table
C11_Witness ==
    /\ lastWrite.op \in {"delete", "update"}
    /\ lastWrite.status = 404
    /\ lastWrite.user # 0
    /\ users[lastWrite.user].role = "company"
    /\ \E r \in rows : r.id = lastWrite.id /\ r.company_id # lastWrite.user
    /\ rows = lastWrite.before

====
